---- MODULE Spec2Model ----
(***************************************************************************)
(* Lead assignment system: the assigner (src/src/assigner.py) and the      *)
(* lead simulator (src/src/simulator.py) over a transactional relational   *)
(* store.                                                                  *)
(*                                                                         *)
(* The store is modelled with row versions: every physical row carries the *)
(* identifier of the open transaction that wrote it ("by", 0 = committed). *)
(* A connection sees committed rows and its own uncommitted ones; commit   *)
(* publishes them, closing a connection without commit discards them.      *)
(* Status names are sequences of characters, so that strip() and LOWER()   *)
(* are computed and not assumed.                                           *)
(***************************************************************************)
EXTENDS Integers, Sequences, FiniteSets

(* ------------------------------ bounds --------------------------------- *)
\* lead document numbers are 1..NumLeads (they only need an order)
NumLeads == 2
\* max_leads_count ranges over 0..MaxCap
MaxCap == 2
\* number of cycles (connections opened) in one behaviour
MaxCycles == 2
\* number of status resolutions in one behaviour of the registry alone
MaxCalls == 3

Procs == {1, 2}
LeadIds == 1..NumLeads
\* business_line_id values
Lines == {1, 2}
SellerIds == <<"S1", "S2">>
NULL == "NULL"

(* --------------------------- status names ------------------------------ *)
Upper == <<"A","B","C","D","E","F","G","H","I","J","K","L","M",
           "N","O","P","Q","R","S","T","U","V","W","X","Y","Z">>
Lower == <<"a","b","c","d","e","f","g","h","i","j","k","l","m",
           "n","o","p","q","r","s","t","u","v","w","x","y","z">>

LowerChar(c) ==
    IF \E k \in DOMAIN Upper : Upper[k] = c
    THEN Lower[CHOOSE k \in DOMAIN Upper : Upper[k] = c]
    ELSE c

\* SQL LOWER(name)
LOWER(s) == [k \in DOMAIN s |-> LowerChar(s[k])]

RECURSIVE lstrip(_)
lstrip(s) == IF s # <<>> /\ Head(s) = " " THEN lstrip(Tail(s)) ELSE s

RECURSIVE rstrip(_)
rstrip(s) ==
    IF s # <<>> /\ s[Len(s)] = " " THEN rstrip(SubSeq(s, 1, Len(s) - 1)) ELSE s

\* Python str.strip()
strip(s) == rstrip(lstrip(s))

Pending == <<"P","e","n","d","i","n","g">>
Assigned == <<"A","s","s","i","g","n","e","d">>
InProgress == <<"I","n"," ","P","r","o","g","r","e","s","s">>
pending_lc == <<"p","e","n","d","i","n","g">>

VARIABLES
    leads,                \* table leads: rows [document_number, business_line_id, by]
    sellers,              \* table sellers (only read by the program)
    assignments,          \* table assignments: sequence of row versions [c, u, by]
    assignment_statuses,  \* table assignment_statuses: rows [assignment_status_id, name, by]
    clock,                \* the wall clock read by datetime.now() / NOW()
    pc,                   \* position of each process
    frame,                \* locals of assign_leads / assign_leads_to_sellers per process
    sim,                  \* locals of run_simulation_cycle per process
    result,               \* how the last call of assign_leads ended, per process
    hist                  \* history of the running cycle (what was read and produced)

store == <<leads, sellers, assignments, assignment_statuses>>
vars == <<leads, sellers, assignments, assignment_statuses, clock, pc, frame, sim,
          result, hist>>

(* ------------------------ row versions and views ------------------------ *)
\* the version of a row that connection p sees (p = 0: the committed one);
\* <<>> when the row is not visible to p
Vis(r, p) == IF p # 0 /\ r.by = p THEN r.u ELSE r.c

\* indices of the assignment rows visible to p
AIdx(asg, p) == {k \in DOMAIN asg : Vis(asg[k], p) # <<>>}
ARow(asg, p, k) == Vis(asg[k], p)[1]

\* faulty variant: a connection that does not see its own uncommitted rows
Visible_committed_only(rows, p) == {r \in rows : r.by = 0}

\* rows of an insert-only table visible to p
Visible(rows, p) == {r \in rows : r.by = 0 \/ r.by = p}

\* the committed content of the store
CommittedAssignments(asg) ==
    LET keep(r) == r.c # <<>>
        s == SelectSeq(asg, keep)
    IN  [k \in DOMAIN s |-> s[k].c[1]]
CommittedStatuses(st) == {[assignment_status_id |-> r.assignment_status_id, name |-> r.name] :
                            r \in {x \in st : x.by = 0}}
CommittedLeads(ls) == {[document_number |-> r.document_number,
                        business_line_id |-> r.business_line_id] :
                            r \in {x \in ls : x.by = 0}}
Committed == [leads |-> CommittedLeads(leads),
              assignments |-> CommittedAssignments(assignments),
              assignment_statuses |-> CommittedStatuses(assignment_statuses)]

\* faulty variant: the commit does not publish: the writes of p are dropped
CommitRows_drops(asg, p) ==
    LET keep(r) == ~(r.by = p /\ r.c = <<>>)
        s == SelectSeq(asg, keep)
    IN  [k \in DOMAIN s |->
            IF s[k].by = p THEN [c |-> s[k].c, u |-> <<>>, by |-> 0] ELSE s[k]]

\* conn.commit(): the writes of p become the committed versions
CommitRows(asg, p) ==
    [k \in DOMAIN asg |->
        IF asg[k].by = p THEN [c |-> asg[k].u, u |-> <<>>, by |-> 0] ELSE asg[k]]
CommitSet(rows, p) ==
    {IF r.by = p THEN [r EXCEPT !.by = 0] ELSE r : r \in rows}

\* faulty variant: closing the connection publishes the writes of p
RollbackRows_publishes(asg, p) == CommitRows(asg, p)

\* conn.close() without commit: the writes of p are discarded
RollbackRows(asg, p) ==
    LET keep(r) == ~(r.by = p /\ r.c = <<>>)
        s == SelectSeq(asg, keep)
    IN  [k \in DOMAIN s |->
            IF s[k].by = p THEN [c |-> s[k].c, u |-> <<>>, by |-> 0] ELSE s[k]]
RollbackSet(rows, p) == {r \in rows : r.by # p}

(* ----------------------------- get_status_id ---------------------------- *)
\* SERIAL key of assignment_statuses: an identifier no row has
FreshStatusId(st) ==
    CHOOSE n \in 1..(Cardinality(st) + 1) :
        /\ \A r \in st : r.assignment_status_id # n
        /\ \A m \in 1..(n - 1) : \E r \in st : r.assignment_status_id = m

\* faulty variant: the lookup compares the names as written
LookupStatus_exact(st, p, name) ==
    LET found == {r \in {x \in st : x.by = 0 \/ x.by = p} : r.name = name}
        new == FreshStatusId(st)
    IN  IF found # {}
        THEN {[id |-> r.assignment_status_id, st |-> st] : r \in found}
        ELSE {[id |-> new,
               st |-> st \cup {[assignment_status_id |-> new, name |-> name, by |-> p]}]}

\* SELECT ... WHERE LOWER(name) = LOWER(%s), then INSERT when no row matched.
\* The set of possible (id, table) outcomes: fetchone() may return any match.
LookupStatus(st, p, name) ==
    LET found == {r \in Visible(st, p) : LOWER(r.name) = LOWER(name)}
        new == FreshStatusId(st)
    IN  IF found # {}
        THEN {[id |-> r.assignment_status_id, st |-> st] : r \in found}
        ELSE {[id |-> new,
               st |-> st \cup {[assignment_status_id |-> new, name |-> name, by |-> p]}]}

\* assigner.get_status_id: the name is stripped first
get_status_id(st, p, status_name) == LookupStatus(st, p, strip(status_name))

\* simulator.get_status_id: the name is used as given
sim_get_status_id(st, p, status_name) == LookupStatus(st, p, status_name)

(* ------------------------------ helpers --------------------------------- *)
Min(S) == CHOOSE x \in S : \A y \in S : x <= y

\* faulty variant: the largest document number first
RECURSIVE Ascending_descending(_)
Ascending_descending(S) ==
    IF S = {} THEN <<>>
    ELSE LET m == CHOOSE x \in S : \A y \in S : x >= y
         IN  <<m>> \o Ascending_descending(S \ {m})

\* a set of document numbers in ascending order
RECURSIVE Ascending(_)
Ascending(S) == IF S = {} THEN <<>> ELSE <<Min(S)>> \o Ascending(S \ {Min(S)})

\* all orders in which a query without ORDER BY may return a set of rows
RECURSIVE Orders(_)
Orders(S) ==
    IF S = {} THEN {<<>>}
    ELSE UNION {{<<x>> \o t : t \in Orders(S \ {x})} : x \in S}

RECURSIVE Repeat(_, _)
Repeat(x, n) == IF n = 0 THEN <<>> ELSE <<x>> \o Repeat(x, n - 1)

RECURSIVE Flatten(_)
Flatten(ss) == IF ss = <<>> THEN <<>> ELSE Head(ss) \o Flatten(Tail(ss))

AssignmentRow(at, seller, lead, status) ==
    [assigned_at |-> at, seller_document_number |-> seller,
     lead_document_number |-> lead, assignment_status_id |-> status]

(* ----------------------- ensure_pending_assignments --------------------- *)
\* faulty variant: the anti-join is lost: every lead is reported as untracked
UntrackedLeads_all(ls, asg, p) == {l.document_number : l \in {x \in ls : x.by = 0 \/ x.by = p}}

\* SELECT l.document_number FROM leads l LEFT JOIN assignments a ... WHERE a IS NULL
UntrackedLeads(ls, asg, p) ==
    {l.document_number : l \in
        {x \in Visible(ls, p) :
            \A k \in AIdx(asg, p) :
                ARow(asg, p, k).lead_document_number # x.document_number}}

\* executemany(INSERT INTO assignments ...): one Pending row without seller per lead
InsertPending(asg, p, new_leads, pending_id, now) ==
    LET docs == Ascending(new_leads)
    IN  asg \o [k \in DOMAIN docs |->
                  [c |-> <<>>,
                   u |-> <<AssignmentRow(now, NULL, docs[k], pending_id)>>,
                   by |-> p]]

\* the possible outcomes [st, asg] of ensure_pending_assignments on connection p
ensure_pending_assignments(st, ls, asg, p, now) ==
    {[st |-> r.st,
      asg |-> InsertPending(asg, p, UntrackedLeads(ls, asg, p), r.id, now)] :
        r \in get_status_id(st, p, Pending)}

(* ------------------------------- fetchers ------------------------------- *)
StatusName(st, p, id) ==
    {r.name : r \in {x \in Visible(st, p) : x.assignment_status_id = id}}

\* faulty variant: the WHERE clause is lost: every tracked lead is fetched
fetch_pending_leads_all(ls, asg, st, p) ==
    LET vis == Visible(ls, p)
        docs == Ascending({l.document_number : l \in vis})
        line(d) == (CHOOSE l \in vis : l.document_number = d).business_line_id
        hits(d) == {k \in AIdx(asg, p) : ARow(asg, p, k).lead_document_number = d}
    IN  Flatten([k \in DOMAIN docs |->
                   Repeat([document_number |-> docs[k], business_line_id |-> line(docs[k])],
                          Cardinality(hits(docs[k])))])

\* leads JOIN assignments JOIN assignment_statuses WHERE LOWER(st.name) = 'pending'
\* ORDER BY l.document_number: one result row per matching assignment row
fetch_pending_leads(ls, asg, st, p) ==
    LET vis == Visible(ls, p)
        docs == Ascending({l.document_number : l \in vis})
        line(d) == (CHOOSE l \in vis : l.document_number = d).business_line_id
        hits(d) == {k \in AIdx(asg, p) :
                      /\ ARow(asg, p, k).lead_document_number = d
                      /\ \E n \in StatusName(st, p, ARow(asg, p, k).assignment_status_id) :
                            LOWER(n) = pending_lc}
    IN  Flatten([k \in DOMAIN docs |->
                   Repeat([document_number |-> docs[k], business_line_id |-> line(docs[k])],
                          Cardinality(hits(docs[k])))])

\* the COUNT(*) subquery: st.name IN ('Assigned', 'In Progress'), compared as written
CurrentLeads(asg, st, p, seller) ==
    Cardinality({k \in AIdx(asg, p) :
        /\ ARow(asg, p, k).seller_document_number = seller
        /\ \E n \in StatusName(st, p, ARow(asg, p, k).assignment_status_id) :
              n \in {Assigned, InProgress}})

\* the rows of fetch_eligible_sellers (sellers WHERE is_active), in no particular order
fetch_eligible_sellers(sl, asg, st, p) ==
    {[document_number |-> s.document_number,
      business_line_id |-> s.business_line_id,
      max_leads_count |-> s.max_leads_count,
      current_leads |-> CurrentLeads(asg, st, p, s.document_number)] :
        s \in {x \in sl : x.is_active}}

(* --------------------------- assignment logic --------------------------- *)
\* faulty variant: the capacity test lets a seller at its ceiling through
is_lead_assignable_at_ceiling(lead, seller) ==
    IF lead.business_line_id # seller.business_line_id THEN FALSE
    ELSE IF seller.current_leads > seller.max_leads_count THEN FALSE
    ELSE TRUE

\* faulty variant: the business line test is lost
is_lead_assignable_any_line(lead, seller) ==
    IF seller.current_leads >= seller.max_leads_count THEN FALSE ELSE TRUE

\* faulty variant: the capacity test keeps the last free place of a seller
is_lead_assignable_one_short(lead, seller) ==
    IF lead.business_line_id # seller.business_line_id THEN FALSE
    ELSE IF seller.current_leads + 1 >= seller.max_leads_count THEN FALSE
    ELSE TRUE

is_lead_assignable(lead, seller) ==
    IF lead.business_line_id # seller.business_line_id THEN FALSE
    ELSE IF seller.current_leads >= seller.max_leads_count THEN FALSE
    ELSE TRUE

\* eligible = [s for s in sellers if is_lead_assignable(lead, s)], as positions
EligibleIdx(lead, slist) ==
    {k \in DOMAIN slist : is_lead_assignable(lead, slist[k])}

\* faulty variant: the least loaded eligible seller, the later one on a tie
FirstEligible_least_loaded(lead, slist) ==
    CHOOSE k \in EligibleIdx(lead, slist) :
        \A j \in EligibleIdx(lead, slist) :
            \/ slist[k].current_leads < slist[j].current_leads
            \/ (slist[k].current_leads = slist[j].current_leads /\ k >= j)

\* faulty variant: the choice among the eligible sellers rotates with the time
FirstEligible_by_time(lead, slist) ==
    IF clock % 2 = 1
    THEN Min(EligibleIdx(lead, slist))
    ELSE CHOOSE k \in EligibleIdx(lead, slist) : \A j \in EligibleIdx(lead, slist) : k >= j

\* eligible[0]: the position in sellers of the first eligible seller
FirstEligible(lead, slist) == Min(EligibleIdx(lead, slist))

\* faulty variant: the WHERE clause is lost: every record is updated
UpdateAssignment_no_where(asg, p, lead_doc, seller_doc, status_id, now) ==
    [k \in DOMAIN asg |->
        IF k \in AIdx(asg, p)
        THEN [c |-> asg[k].c,
              u |-> <<AssignmentRow(now, seller_doc,
                                    ARow(asg, p, k).lead_document_number, status_id)>>,
              by |-> p]
        ELSE asg[k]]

\* UPDATE assignments SET seller, status, assigned_at WHERE lead_document_number = %s
UpdateAssignment(asg, p, lead_doc, seller_doc, status_id, now) ==
    [k \in DOMAIN asg |->
        IF k \in AIdx(asg, p) /\ ARow(asg, p, k).lead_document_number = lead_doc
        THEN [c |-> asg[k].c,
              u |-> <<AssignmentRow(now, seller_doc, lead_doc, status_id)>>,
              by |-> p]
        ELSE asg[k]]

(* ------------------------------ initial state --------------------------- *)
\* LEADS_MIN, LEADS_MAX: the simulator's batch size range; LEADS_MAX is read from
\* the environment and set to 1 here
LEADS_MIN == 1
LEADS_MAX == 1

\* INITIAL_ASSIGNMENT_STATUS, at its default
INITIAL_ASSIGNMENT_STATUS == Pending

StatusRow(id, name) == [assignment_status_id |-> id, name |-> name, by |-> 0]

\* registries the store may hold before the first cycle: empty, seeded with the
\* names as the code writes them, or seeded in lower case
InitRegistries ==
    { {},
      {StatusRow(1, Pending), StatusRow(2, Assigned), StatusRow(3, InProgress)},
      {StatusRow(1, LOWER(Pending)), StatusRow(2, LOWER(Assigned)),
       StatusRow(3, LOWER(InProgress))} }

\* the seller rows the table may hold: the first seller is of line 1 with any
\* ceiling, the others of any line with a ceiling of one lead; an inactive
\* seller is never read beyond its flag
SellerRows(k) ==
    {[document_number |-> SellerIds[k], business_line_id |-> b,
      max_leads_count |-> m, is_active |-> TRUE] :
        b \in (IF k = 1 THEN {1} ELSE Lines),
        m \in (IF k = 1 THEN 0..MaxCap ELSE {1})}
    \cup {[document_number |-> SellerIds[k], business_line_id |-> 1,
           max_leads_count |-> MaxCap, is_active |-> FALSE]}

EmptyFrame == [leads |-> <<>>, sellers |-> <<>>, assigned_id |-> 0, count |-> 0,
               assigned_count |-> 0, i |-> 0, caller |-> "main"]
EmptySim == [n_left |-> 0, status |-> Pending]
NoResult == [outcome |-> "none", value |-> 0]
EmptyHist(c) == [pre |-> c, mid |-> c, fetched |-> <<>>, produced |-> <<>>,
                 failed |-> "no", stage |-> "idle", caller |-> "main"]

\* the records the store may hold before the first cycle: none, or the one of
\* lead 1 being worked on ("In Progress", status 3 of a seeded registry) by the
\* first seller, which is of the lead's business line
InitAssignments(ls, st) ==
    {<<>>} \cup
    {<<[c |-> <<AssignmentRow(0, SellerIds[1], l.document_number, r.assignment_status_id)>>,
        u |-> <<>>, by |-> 0]>> :
        l \in {x \in ls : x.document_number = 1 /\ x.business_line_id = 1},
        r \in {x \in st : LOWER(x.name) = LOWER(InProgress)}}

\* the leads 1..n exist for some n, created by an external ingestion; they have
\* no tracking record yet (ensure_pending_assignments exists for those), but
\* for the one the store may already show in progress
Init ==
    /\ \E present \in {1..n : n \in 0..NumLeads} :
         \E line \in [present -> Lines] :
            leads = {[document_number |-> d, business_line_id |-> line[d], by |-> 0] :
                        d \in present}
    /\ \E t \in [DOMAIN SellerIds -> UNION {SellerRows(k) : k \in DOMAIN SellerIds}] :
         /\ \A k \in DOMAIN SellerIds : t[k] \in SellerRows(k)
         /\ sellers = {t[k] : k \in DOMAIN SellerIds}
    /\ assignment_statuses \in InitRegistries
    /\ assignments \in InitAssignments(leads, assignment_statuses)
    /\ clock = 0
    /\ pc = [p \in Procs |-> "idle"]
    /\ frame = [p \in Procs |-> EmptyFrame]
    /\ sim = [p \in Procs |-> EmptySim]
    /\ result = [p \in Procs |-> NoResult]
    /\ hist = [p \in Procs |->
                 EmptyHist([leads |-> CommittedLeads(leads),
                            assignments |-> CommittedAssignments(assignments),
                            assignment_statuses |-> CommittedStatuses(assignment_statuses)])]

(* ------------------------------ assign_leads ---------------------------- *)
\* the return statement after the finally block closed the connection
Return(p, value) ==
    /\ result' = [result EXCEPT ![p] = [outcome |-> "returned", value |-> value]]
    /\ pc' = [pc EXCEPT ![p] = "idle"]
    /\ frame' = [frame EXCEPT ![p] = EmptyFrame]

\* get_connection() and conn.cursor() succeed; assigned_count = 0
Connect(p) ==
    /\ pc[p] \in {"idle", "call_assigner"}
    /\ clock < MaxCycles
    /\ clock' = clock + 1
    /\ pc' = [pc EXCEPT ![p] = "ensure"]
    /\ frame' = [frame EXCEPT ![p] =
                   [EmptyFrame EXCEPT !.caller =
                       IF pc[p] = "call_assigner" THEN "sim" ELSE "main"]]
    /\ result' = [result EXCEPT ![p] = NoResult]
    /\ hist' = [hist EXCEPT ![p] =
                  [EmptyHist(Committed) EXCEPT
                      !.stage = "connected",
                      !.caller = IF pc[p] = "call_assigner" THEN "sim" ELSE "main"]]
    /\ UNCHANGED <<store, sim>>

\* get_connection() raises: the except block logs, and the finally block reads
\* the unbound local `cursor`, so the call ends with an UnboundLocalError
ConnectFail(p) ==
    /\ pc[p] \in {"idle", "call_assigner"}
    /\ clock < MaxCycles
    /\ clock' = clock + 1
    /\ pc' = [pc EXCEPT ![p] = "idle"]
    /\ frame' = [frame EXCEPT ![p] = EmptyFrame]
    /\ result' = [result EXCEPT ![p] = [outcome |-> "raised", value |-> 0]]
    /\ hist' = [hist EXCEPT ![p] =
                  [EmptyHist(Committed) EXCEPT
                      !.failed = "connect",
                      !.caller = IF pc[p] = "call_assigner" THEN "sim" ELSE "main"]]
    /\ UNCHANGED <<store, sim>>

\* Paso 1: ensure_pending_assignments(cursor)
Ensure(p) ==
    /\ pc[p] = "ensure"
    /\ \E r \in ensure_pending_assignments(assignment_statuses, leads, assignments, p, clock) :
         /\ assignment_statuses' = r.st
         /\ assignments' = r.asg
    /\ pc' = [pc EXCEPT ![p] = "commit1"]
    /\ hist' = [hist EXCEPT ![p].stage = "ensured"]
    /\ UNCHANGED <<leads, sellers, clock, frame, sim, result>>

\* conn.commit() after the ensure step
Commit1(p) ==
    /\ pc[p] = "commit1"
    /\ assignments' = CommitRows(assignments, p)
    /\ assignment_statuses' = CommitSet(assignment_statuses, p)
    /\ leads' = CommitSet(leads, p)
    /\ pc' = [pc EXCEPT ![p] = "fetch_leads"]
    /\ hist' = [hist EXCEPT ![p].stage = "tracked",
                            ![p].mid = [leads |-> CommittedLeads(leads'),
                                        assignments |-> CommittedAssignments(assignments'),
                                        assignment_statuses |->
                                            CommittedStatuses(assignment_statuses')]]
    /\ UNCHANGED <<sellers, clock, frame, sim, result>>

\* Paso 2: leads = fetch_pending_leads(cursor); return when there is none
FetchLeads(p) ==
    /\ pc[p] = "fetch_leads"
    /\ LET ls == fetch_pending_leads(leads, assignments, assignment_statuses, p)
       IN  IF ls = <<>>
           THEN /\ Return(p, frame[p].assigned_count)
                /\ hist' = [hist EXCEPT ![p].stage = "no_leads"]
           ELSE /\ frame' = [frame EXCEPT ![p].leads = ls]
                /\ pc' = [pc EXCEPT ![p] = "fetch_sellers"]
                /\ hist' = [hist EXCEPT ![p].stage = "leads_read"]
                /\ UNCHANGED result
    /\ UNCHANGED <<store, clock, sim>>

\* Paso 3: sellers = fetch_eligible_sellers(cursor); return when there is none
FetchSellers(p) ==
    /\ pc[p] = "fetch_sellers"
    /\ \E sl \in Orders(fetch_eligible_sellers(sellers, assignments,
                                               assignment_statuses, p)) :
         IF sl = <<>>
            THEN /\ Return(p, frame[p].assigned_count)
                 /\ hist' = [hist EXCEPT ![p].stage = "no_sellers"]
            ELSE /\ frame' = [frame EXCEPT ![p].sellers = sl]
                 /\ pc' = [pc EXCEPT ![p] = "match"]
                 /\ hist' = [hist EXCEPT ![p].stage = "sellers_read", ![p].fetched = sl]
                 /\ UNCHANGED result
    /\ UNCHANGED <<store, clock, sim>>

(* ------------------------ assign_leads_to_sellers ----------------------- *)
\* assigned_count = 0; assigned_id = get_status_id(cursor, "Assigned")
MatchBegin(p) ==
    /\ pc[p] = "match"
    /\ \E r \in get_status_id(assignment_statuses, p, Assigned) :
         /\ assignment_statuses' = r.st
         /\ frame' = [frame EXCEPT ![p].assigned_id = r.id, ![p].count = 0, ![p].i = 1]
    /\ pc' = [pc EXCEPT ![p] = "loop"]
    /\ hist' = [hist EXCEPT ![p].stage = "matching"]
    /\ UNCHANGED <<leads, sellers, assignments, clock, sim, result>>

\* one iteration of `for lead in leads`
AssignStep(p) ==
    /\ pc[p] = "loop"
    /\ frame[p].i <= Len(frame[p].leads)
    /\ LET f == frame[p]
           lead == f.leads[f.i]
       IN  IF EligibleIdx(lead, f.sellers) # {}
           THEN LET k == FirstEligible(lead, f.sellers)
                    seller == f.sellers[k]
                IN  /\ assignments' =
                          UpdateAssignment(assignments, p, lead.document_number,
                                           seller.document_number, f.assigned_id, clock)
                    /\ frame' = [frame EXCEPT
                                   ![p].sellers[k].current_leads = seller.current_leads + 1,
                                   ![p].count = f.count + 1,
                                   ![p].i = f.i + 1]
                    /\ hist' = [hist EXCEPT ![p].produced =
                                  Append(@, [lead |-> lead, before |-> f.sellers, pos |-> k])]
           ELSE /\ frame' = [frame EXCEPT ![p].i = f.i + 1]
                /\ hist' = [hist EXCEPT ![p].produced =
                              Append(@, [lead |-> lead, before |-> f.sellers, pos |-> 0])]
                /\ UNCHANGED assignments
    /\ UNCHANGED <<leads, sellers, assignment_statuses, clock, pc, sim, result>>

\* return assigned_count; in assign_leads: assigned_count = assign_leads_to_sellers(...)
MatchReturn(p) ==
    /\ pc[p] = "loop"
    /\ frame[p].i > Len(frame[p].leads)
    /\ frame' = [frame EXCEPT ![p].assigned_count = frame[p].count]
    /\ IF frame[p].caller = "direct"
       THEN /\ pc' = [pc EXCEPT ![p] = "returned"]
            /\ result' = [result EXCEPT ![p] =
                            [outcome |-> "returned", value |-> frame[p].count]]
       ELSE /\ pc' = [pc EXCEPT ![p] = "commit2"]
            /\ UNCHANGED result
    /\ hist' = [hist EXCEPT ![p].stage = "matched"]
    /\ UNCHANGED <<store, clock, sim>>

\* Paso 4, second half: conn.commit(), then the function returns assigned_count
Commit2(p) ==
    /\ pc[p] = "commit2"
    /\ assignments' = CommitRows(assignments, p)
    /\ assignment_statuses' = CommitSet(assignment_statuses, p)
    /\ leads' = CommitSet(leads, p)
    /\ Return(p, frame[p].assigned_count)
    /\ hist' = [hist EXCEPT ![p].stage = "committed"]
    /\ UNCHANGED <<sellers, clock, sim>>

\* a store call raises inside the try block: `except Exception` logs the error,
\* `finally` closes cursor and connection (the open transaction is discarded),
\* and the function returns assigned_count
FailPoints == {"ensure", "commit1", "fetch_leads", "fetch_sellers", "match", "loop", "commit2"}

Fail(p) ==
    /\ pc[p] \in FailPoints
    /\ pc[p] = "loop" => frame[p].i <= Len(frame[p].leads)
    /\ frame[p].caller # "direct"
    /\ assignments' = RollbackRows(assignments, p)
    /\ assignment_statuses' = RollbackSet(assignment_statuses, p)
    /\ leads' = RollbackSet(leads, p)
    /\ Return(p, frame[p].assigned_count)
    /\ hist' = [hist EXCEPT ![p].failed = pc[p]]
    /\ UNCHANGED <<sellers, clock, sim>>

(* --------------------------- run_simulation_cycle ----------------------- *)
\* get_connection(); n_leads = random.randint(LEADS_MIN, LEADS_MAX); the outcome
\* of the previous cycle is history
SimBegin(p) ==
    /\ pc[p] = "idle"
    /\ clock < MaxCycles
    /\ \E n \in LEADS_MIN..LEADS_MAX :
         sim' = [sim EXCEPT ![p] = [n_left |-> n, status |-> INITIAL_ASSIGNMENT_STATUS]]
    /\ pc' = [pc EXCEPT ![p] = "sim_insert"]
    /\ result' = [result EXCEPT ![p] = NoResult]
    /\ hist' = [hist EXCEPT ![p] = EmptyHist(Committed)]
    /\ UNCHANGED <<store, clock, frame>>

\* generate_fake_lead + insert_lead_and_pending_assignment for one lead
SimInsert(p) ==
    /\ pc[p] = "sim_insert"
    /\ sim[p].n_left > 0
    /\ \E doc \in LeadIds, line \in Lines :
         IF \E l \in Visible(leads, p) : l.document_number = doc
         THEN \* ON CONFLICT DO NOTHING: no row returned, assignment creation skipped
              UNCHANGED <<leads, assignments, assignment_statuses>>
         ELSE /\ leads' = leads \cup
                    {[document_number |-> doc, business_line_id |-> line, by |-> p]}
              /\ \E r \in sim_get_status_id(assignment_statuses, p, sim[p].status) :
                   /\ assignment_statuses' = r.st
                   /\ assignments' = Append(assignments,
                         [c |-> <<>>, u |-> <<AssignmentRow(clock, NULL, doc, r.id)>>,
                          by |-> p])
    /\ sim' = [sim EXCEPT ![p].n_left = @ - 1]
    /\ UNCHANGED <<sellers, clock, pc, frame, result, hist>>

\* conn.commit(); cursor.close(); conn.close(); next: assigner.assign_leads()
SimCommit(p) ==
    /\ pc[p] = "sim_insert"
    /\ sim[p].n_left = 0
    /\ assignments' = CommitRows(assignments, p)
    /\ assignment_statuses' = CommitSet(assignment_statuses, p)
    /\ leads' = CommitSet(leads, p)
    /\ pc' = [pc EXCEPT ![p] = "call_assigner"]
    /\ sim' = [sim EXCEPT ![p] = EmptySim]
    /\ UNCHANGED <<sellers, clock, frame, result, hist>>

\* a store call of the simulator raises: the except block logs, nothing is committed
SimFail(p) ==
    /\ pc[p] = "sim_insert"
    /\ assignments' = RollbackRows(assignments, p)
    /\ assignment_statuses' = RollbackSet(assignment_statuses, p)
    /\ leads' = RollbackSet(leads, p)
    /\ pc' = [pc EXCEPT ![p] = "idle"]
    /\ sim' = [sim EXCEPT ![p] = EmptySim]
    /\ UNCHANGED <<sellers, clock, frame, result, hist>>

\* the call of assign_leads by process p has returned and no new cycle has begun
Returned(p) == pc[p] = "idle" /\ result[p].outcome = "returned"

(* ------------------------------ specification --------------------------- *)
\* one cycle runs to completion before the next begins: a single process
Next ==
    \/ Connect(1) \/ ConnectFail(1)
    \/ Ensure(1) \/ Commit1(1)
    \/ FetchLeads(1) \/ FetchSellers(1)
    \/ MatchBegin(1) \/ AssignStep(1) \/ MatchReturn(1)
    \/ Commit2(1) \/ Fail(1)
    \/ SimBegin(1) \/ SimInsert(1) \/ SimCommit(1) \/ SimFail(1)

Spec == Init /\ [][Next]_vars

\* assigner.py run on its own (python assigner.py, one cycle per run), again and
\* again on a store whose leads come from elsewhere
NextAssigner ==
    \/ Connect(1) \/ ConnectFail(1)
    \/ Ensure(1) \/ Commit1(1)
    \/ FetchLeads(1) \/ FetchSellers(1)
    \/ MatchBegin(1) \/ AssignStep(1) \/ MatchReturn(1)
    \/ Commit2(1) \/ Fail(1)

SpecAssigner == Init /\ [][NextAssigner]_vars

\* a run of assign_leads that may fail, and when it failed after the commit of
\* its ensure step, a second run (a new connection, one tick later) on the
\* store it left, with leads and sellers unchanged
AfterEnsure == {"fetch_leads", "fetch_sellers", "match", "loop", "commit2"}

FirstRun(p) ==
    /\ \A q \in Procs : hist[q].stage = "idle" /\ hist[q].failed = "no"
    /\ Connect(p)

Rerun(q, p) ==
    /\ Returned(q) /\ hist[q].failed \in AfterEnsure
    /\ hist[p].stage = "idle" /\ hist[p].failed = "no"
    /\ Connect(p)

NextRetry ==
    \/ FirstRun(1) \/ Rerun(1, 2) \/ Fail(1)
    \/ \E p \in Procs :
          \/ Ensure(p) \/ Commit1(p)
          \/ FetchLeads(p) \/ FetchSellers(p)
          \/ MatchBegin(p) \/ AssignStep(p) \/ MatchReturn(p)
          \/ Commit2(p)

SpecRetry == Init /\ [][NextRetry]_vars

(* ------------- the matching engine called on its own inputs ------------- *)
\* lead sequences as fetch_pending_leads delivers them: ascending and distinct
EngineLeads ==
    UNION {{[k \in DOMAIN Ascending(present) |->
                [document_number |-> Ascending(present)[k],
                 business_line_id |-> line[Ascending(present)[k]]]] :
              line \in [present -> Lines]} : present \in SUBSET LeadIds}

\* seller sequences: any line, any ceiling, any load up to one above the ceilings
EngineSeller(k) ==
    {[document_number |-> SellerIds[k], business_line_id |-> b,
      max_leads_count |-> m, current_leads |-> c] :
        b \in Lines, m \in 0..MaxCap, c \in 0..(MaxCap + 1)}
EngineSellers ==
    UNION {{sl \in [1..n -> UNION {EngineSeller(k) : k \in 1..n}] :
              \A k \in 1..n : sl[k] \in EngineSeller(k)} : n \in 0..Len(SellerIds)}

\* the store under the engine: every lead tracked as Pending (at time 0) once the
\* registry knows the status, no tracking record before; the calls happen at time 1
InitEngine ==
    /\ leads = {[document_number |-> d, business_line_id |-> 1, by |-> 0] : d \in LeadIds}
    /\ sellers = {}
    /\ assignment_statuses \in InitRegistries
    /\ assignments =
         IF assignment_statuses = {} THEN <<>>
         ELSE [d \in LeadIds |->
                 [c |-> <<AssignmentRow(0, NULL, d, 1)>>, u |-> <<>>, by |-> 0]]
    /\ clock = 1
    /\ pc = [p \in Procs |-> "idle"]
    /\ frame = [p \in Procs |-> EmptyFrame]
    /\ sim = [p \in Procs |-> EmptySim]
    /\ result = [p \in Procs |-> NoResult]
    /\ hist = [p \in Procs |->
                 EmptyHist([leads |-> CommittedLeads(leads),
                            assignments |-> CommittedAssignments(assignments),
                            assignment_statuses |-> CommittedStatuses(assignment_statuses)])]

\* assign_leads_to_sellers(cursor, leads, sellers) on an open connection
EngineCall(p) ==
    /\ pc[p] = "idle"
    /\ \E ls \in EngineLeads, sl \in EngineSellers :
         /\ frame' = [frame EXCEPT ![p] =
                        [EmptyFrame EXCEPT !.leads = ls, !.sellers = sl, !.caller = "direct"]]
         /\ hist' = [hist EXCEPT ![p] =
                       [EmptyHist(Committed) EXCEPT
                           !.fetched = sl, !.stage = "sellers_read", !.caller = "direct"]]
    /\ pc' = [pc EXCEPT ![p] = "match"]
    /\ result' = [result EXCEPT ![p] = NoResult]
    /\ UNCHANGED <<store, clock, sim>>

\* the caller closes the connection without commit and drops the result
EngineClose(p) ==
    /\ pc[p] = "returned"
    /\ assignments' = RollbackRows(assignments, p)
    /\ assignment_statuses' = RollbackSet(assignment_statuses, p)
    /\ leads' = RollbackSet(leads, p)
    /\ pc' = [pc EXCEPT ![p] = "idle"]
    /\ frame' = [frame EXCEPT ![p] = EmptyFrame]
    /\ result' = [result EXCEPT ![p] = NoResult]
    /\ hist' = [hist EXCEPT ![p] = EmptyHist(Committed)]
    /\ UNCHANGED <<sellers, clock, sim>>

NextEngine ==
    \/ EngineCall(1) \/ MatchBegin(1) \/ AssignStep(1) \/ MatchReturn(1) \/ EngineClose(1)

SpecEngine == InitEngine /\ [][NextEngine]_vars

(* ------------- the matching engine called twice on the same inputs ------- *)
\* after the run of q returned its connection is closed without commit, and p
\* calls assign_leads_to_sellers, one tick later, with the leads and the sellers
\* (as they were before the first run changed current_leads) that q was given
EngineRepeat(q, p) ==
    /\ pc[q] = "returned" /\ pc[p] = "idle"
    /\ assignments' = RollbackRows(assignments, q)
    /\ assignment_statuses' = RollbackSet(assignment_statuses, q)
    /\ leads' = RollbackSet(leads, q)
    /\ clock' = clock + 1
    /\ frame' = [frame EXCEPT ![p] =
                   [EmptyFrame EXCEPT !.leads = frame[q].leads,
                                      !.sellers = hist[q].fetched, !.caller = "direct"]]
    /\ hist' = [hist EXCEPT ![p] =
                  [EmptyHist(hist[q].pre) EXCEPT
                      !.fetched = hist[q].fetched, !.stage = "sellers_read",
                      !.caller = "direct"]]
    /\ pc' = [pc EXCEPT ![p] = "match"]
    /\ UNCHANGED <<sellers, sim, result>>

\* both callers are done: the second connection is closed without commit too
EngineCloseBoth(q, p) ==
    /\ pc[q] = "returned" /\ pc[p] = "returned"
    /\ assignments' = RollbackRows(assignments, p)
    /\ assignment_statuses' = RollbackSet(assignment_statuses, p)
    /\ leads' = RollbackSet(leads, p)
    /\ clock' = 1
    /\ pc' = [r \in Procs |-> "idle"]
    /\ frame' = [r \in Procs |-> EmptyFrame]
    /\ result' = [r \in Procs |-> NoResult]
    /\ hist' = [r \in Procs |-> EmptyHist(hist[q].pre)]
    /\ UNCHANGED <<sellers, sim>>

NextTwice ==
    \/ EngineCall(1) \/ EngineRepeat(1, 2) \/ EngineCloseBoth(1, 2)
    \/ \E p \in Procs : MatchBegin(p) \/ AssignStep(p) \/ MatchReturn(p)

SpecTwice == InitEngine /\ [][NextTwice]_vars

(* ---------------- the status registry under get_status_id alone --------- *)
\* the names the callers may pass: as the code writes them, in another letter
\* case, and with leading or trailing blanks
RegistryNames ==
    {Pending, pending_lc, <<" ">> \o Pending, Pending \o <<" ">>, Assigned}

InitRegistry ==
    /\ leads = {}
    /\ sellers = {}
    /\ assignments = <<>>
    /\ assignment_statuses \in InitRegistries
    /\ clock = 0
    /\ pc = [p \in Procs |-> "idle"]
    /\ frame = [p \in Procs |-> EmptyFrame]
    /\ sim = [p \in Procs |-> EmptySim]
    /\ result = [p \in Procs |-> NoResult]
    /\ hist = [p \in Procs |->
                 EmptyHist([leads |-> {}, assignments |-> <<>>,
                            assignment_statuses |-> CommittedStatuses(assignment_statuses)])]

\* the bookkeeping of one resolution: the identifier returned is the result, the
\* call and the registry it found go to the history
Resolved(p, via, name, r) ==
    /\ assignment_statuses' = r.st
    /\ result' = [result EXCEPT ![p] = [outcome |-> "returned", value |-> r.id]]
    /\ hist' = [hist EXCEPT ![p].produced =
                  Append(@, [via |-> via, name |-> name, id |-> r.id,
                             before |-> assignment_statuses])]
    /\ clock' = clock + 1
    /\ UNCHANGED <<leads, sellers, assignments, pc, frame, sim>>

\* assigner.get_status_id(cursor, status_name)
AssignerResolve(p) ==
    /\ pc[p] = "idle" /\ clock < MaxCalls
    /\ \E name \in RegistryNames :
         \E r \in get_status_id(assignment_statuses, p, name) :
            Resolved(p, "assigner", name, r)

\* simulator.get_status_id(cursor, status_name)
SimResolve(p) ==
    /\ pc[p] = "idle" /\ clock < MaxCalls
    /\ \E name \in RegistryNames :
         \E r \in sim_get_status_id(assignment_statuses, p, name) :
            Resolved(p, "simulator", name, r)

\* conn.commit() of the caller
RegistryCommit(p) ==
    /\ pc[p] = "idle"
    /\ \E r \in assignment_statuses : r.by = p
    /\ assignment_statuses' = CommitSet(assignment_statuses, p)
    /\ UNCHANGED <<leads, sellers, assignments, clock, pc, frame, sim, result, hist>>

NextRegistry == AssignerResolve(1) \/ SimResolve(1) \/ RegistryCommit(1)

SpecRegistry == InitRegistry /\ [][NextRegistry]_vars

(* ================================ claims ================================ *)
\* how many leads the run has given to the seller at position k of its sellers
GivenTo(p, k) == Cardinality({j \in DOMAIN hist[p].produced : hist[p].produced[j].pos = k})

\* the run of the matching engine of process p has gone through all its leads
EngineDone(p) == hist[p].stage = "matched"

Max0(n) == IF n > 0 THEN n ELSE 0

\* C1 as stated: in one run no seller is given more leads than max_leads_count
\* minus the current_leads it was fetched with, even when that is negative.
C1_AsStated ==
    \A p \in Procs : EngineDone(p) =>
        \A k \in DOMAIN hist[p].fetched :
            GivenTo(p, k) <=
                hist[p].fetched[k].max_leads_count - hist[p].fetched[k].current_leads

\* C1 (amended): in one run no seller is given more leads than its free capacity
\* at the start, max_leads_count - current_leads, or than zero when the seller
\* was fetched at or above its ceiling.
C1_CapacityRespected ==
    \A p \in Procs :
        \A k \in DOMAIN hist[p].fetched :
            GivenTo(p, k) <=
                Max0(hist[p].fetched[k].max_leads_count - hist[p].fetched[k].current_leads)

\* a finished run in which one seller was fetched above its ceiling and left out
\* although a lead of its line went unassigned, and another was filled to its ceiling
C1_Witness ==
    \E p \in Procs :
        /\ EngineDone(p)
        /\ \E k \in DOMAIN hist[p].fetched :
             /\ hist[p].fetched[k].current_leads > hist[p].fetched[k].max_leads_count
             /\ GivenTo(p, k) = 0
             /\ \E j \in DOMAIN hist[p].produced :
                  /\ hist[p].produced[j].pos = 0
                  /\ hist[p].produced[j].lead.business_line_id =
                        hist[p].fetched[k].business_line_id
        /\ \E k \in DOMAIN hist[p].fetched :
             /\ GivenTo(p, k) > 0
             /\ GivenTo(p, k) =
                  hist[p].fetched[k].max_leads_count - hist[p].fetched[k].current_leads

\* C3: the seller chosen for a lead is the first eligible one of the sellers
\* sequence: no seller before it has the lead's business line and free capacity
\* at that moment.
C3_FirstFit ==
    \A p \in Procs :
        \A j \in DOMAIN hist[p].produced :
            LET e == hist[p].produced[j]
            IN  e.pos # 0 =>
                  /\ e.before[e.pos].business_line_id = e.lead.business_line_id
                  /\ e.before[e.pos].current_leads < e.before[e.pos].max_leads_count
                  /\ \A k \in 1..(e.pos - 1) :
                        \/ e.before[k].business_line_id # e.lead.business_line_id
                        \/ e.before[k].current_leads >= e.before[k].max_leads_count

\* a lead went to an earlier seller although a later eligible seller carried
\* fewer leads, and another lead went to the second seller because the first was full
C3_Witness ==
    \E p \in Procs :
        /\ \E j \in DOMAIN hist[p].produced :
             LET e == hist[p].produced[j]
             IN  /\ e.pos = 1
                 /\ Len(e.before) > 1
                 /\ e.before[2].business_line_id = e.lead.business_line_id
                 /\ e.before[2].current_leads < e.before[2].max_leads_count
                 /\ e.before[2].current_leads < e.before[1].current_leads
        /\ \E j \in DOMAIN hist[p].produced :
             LET e == hist[p].produced[j]
             IN  /\ e.pos = 2
                 /\ e.before[1].business_line_id = e.lead.business_line_id

\* C10 as stated: called with an empty lead sequence the engine returns zero and
\* leaves the store untouched, the status registry included.
C10_EmptyBatchNoStoreWrite ==
    \A p \in Procs :
        (pc[p] = "returned" /\ frame[p].leads = <<>>) =>
            /\ result[p].value = 0
            /\ \A r \in assignment_statuses : r.by # p
            /\ \A k \in DOMAIN assignments : assignments[k].by # p

(* ------------------- reading a committed store content ------------------ *)
NamesOf(c, id) == {r.name : r \in {x \in c.assignment_statuses : x.assignment_status_id = id}}
IsPendingRow(c, row) == \E n \in NamesOf(c, row.assignment_status_id) : LOWER(n) = pending_lc
IsAssignedRow(c, row) ==
    /\ row.seller_document_number # NULL
    /\ \E n \in NamesOf(c, row.assignment_status_id) : LOWER(n) = LOWER(Assigned)
RowsOf(c, d) == {k \in DOMAIN c.assignments : c.assignments[k].lead_document_number = d}
LeadDocs(c) == {l.document_number : l \in c.leads}
Range(f) == {f[k] : k \in DOMAIN f}

\* C2: every assignment the engine produces binds a lead to a seller of the same
\* business line whose running current_leads (fetched value plus the assignments
\* it received earlier in the batch) is below its max_leads_count; so every
\* assignment row with a seller, committed or not, joins a lead and a seller of
\* the same business line.
C2_Eligibility ==
    /\ \A p \in Procs :
         \A j \in DOMAIN hist[p].produced :
            LET e == hist[p].produced[j]
                earlier == {i \in 1..(j - 1) : hist[p].produced[i].pos = e.pos}
            IN  e.pos # 0 =>
                  /\ e.before[e.pos].business_line_id = e.lead.business_line_id
                  /\ e.before[e.pos].current_leads =
                        hist[p].fetched[e.pos].current_leads + Cardinality(earlier)
                  /\ e.before[e.pos].current_leads < e.before[e.pos].max_leads_count
    /\ \A k \in DOMAIN assignments :
         \A row \in Range(assignments[k].c) \cup Range(assignments[k].u) :
            row.seller_document_number # NULL =>
               \E l \in leads, s \in sellers :
                  /\ l.document_number = row.lead_document_number
                  /\ s.document_number = row.seller_document_number
                  /\ l.business_line_id = s.business_line_id

\* a committed cycle in which one seller received two leads of its line, the
\* second on a running count above the fetched one
C2_Witness ==
    \E p \in Procs :
        /\ Returned(p) /\ hist[p].stage = "committed"
        /\ \E j \in DOMAIN hist[p].produced :
             LET e == hist[p].produced[j]
             IN  /\ e.pos # 0
                 /\ e.before[e.pos].current_leads > hist[p].fetched[e.pos].current_leads
        /\ \E k \in DOMAIN Committed.assignments :
             Committed.assignments[k].seller_document_number # NULL

\* C4: when assign_leads fails after at least one assignment UPDATE and before
\* the final commit took effect (a failing commit included), the committed store
\* shows none of the updates: it is the store as the ensure step committed it,
\* and every lead that was Pending before the cycle still has its Pending row
\* without seller.
C4_AllOrNothing ==
    \A p \in Procs :
        (Returned(p) /\ hist[p].failed \in {"loop", "commit2"}) =>
            LET now == Committed
            IN  /\ now = hist[p].mid
                /\ \A k \in DOMAIN hist[p].pre.assignments :
                     IsPendingRow(hist[p].pre, hist[p].pre.assignments[k]) =>
                        /\ k \in DOMAIN now.assignments
                        /\ now.assignments[k] = hist[p].pre.assignments[k]
                        /\ now.assignments[k].seller_document_number = NULL
                        /\ IsPendingRow(now, now.assignments[k])

\* the final commit failed after the loop had updated a lead that was Pending
\* before the cycle
C4_Witness ==
    \E p \in Procs :
        /\ Returned(p) /\ hist[p].failed = "commit2"
        /\ \E j \in DOMAIN hist[p].produced :
             /\ hist[p].produced[j].pos # 0
             /\ \E k \in DOMAIN hist[p].pre.assignments :
                  /\ hist[p].pre.assignments[k].lead_document_number =
                        hist[p].produced[j].lead.document_number
                  /\ IsPendingRow(hist[p].pre, hist[p].pre.assignments[k])

\* C5 as stated: every failure inside a cycle reaches the caller of assign_leads
\* as an error.
C5_FailureReported ==
    \A p \in Procs :
        (pc[p] = "idle" /\ hist[p].failed # "no") => result[p].outcome = "raised"

\* the leads whose committed record became Assigned between two store contents
NewlyAssigned(before, after) ==
    {d \in LeadDocs(after) :
        /\ \E k \in RowsOf(after, d) : IsAssignedRow(after, after.assignments[k])
        /\ ~\E k \in RowsOf(before, d) : IsAssignedRow(before, before.assignments[k])}

\* C6 as stated: whatever the outcome of the cycle, the integer assign_leads
\* returns is the number of leads whose committed record went to Assigned in it.
C6_ReturnCountsCommitted ==
    \A p \in Procs :
        Returned(p) =>
            result[p].value = Cardinality(NewlyAssigned(hist[p].pre, Committed))

\* C7: ensure_pending_assignments is idempotent: right after a run of it, before
\* as well as after its commit, a second run on the same connection (now or one
\* tick later) leaves the status registry and the assignment records as they
\* are and inserts no row.
C7_EnsureIdempotent ==
    \A p \in Procs :
        pc[p] \in {"commit1", "fetch_leads"} =>
            \A t \in {clock, clock + 1} :
                ensure_pending_assignments(assignment_statuses, leads, assignments, p, t)
                    = {[st |-> assignment_statuses, asg |-> assignments]}

\* the first run has just inserted the Pending status and a tracking record
C7_Witness ==
    \E p \in Procs :
        /\ pc[p] = "commit1"
        /\ \E r \in assignment_statuses : r.by = p
        /\ \E k \in DOMAIN assignments : assignments[k].by = p

AtMostOneRecord(c) == \A d \in LeadDocs(c) : Cardinality(RowsOf(c, d)) <= 1
ExactlyOneRecord(c) == \A d \in LeadDocs(c) : Cardinality(RowsOf(c, d)) = 1

\* the ensure step of the current or last cycle of process p has been committed
Tracked(p) ==
    hist[p].stage \in {"tracked", "no_leads", "leads_read", "no_sellers", "sellers_read",
                       "matching", "matched", "committed"}

\* C8 as stated: in every committed store state that cycles reach every lead has
\* exactly one assignment record (looked at whenever a cycle has ended).
C8_ExactlyOneAlways ==
    \A p \in Procs :
        (pc[p] = "idle" /\ result[p].outcome # "none") => ExactlyOneRecord(Committed)

\* C8 (amended): in every committed store state every lead has at most one
\* assignment record and no record is without its lead; every lead has exactly
\* one from the commit of a cycle's ensure step on; and a simulator or assigner
\* cycle that began on a store with exactly one record per lead never shows a
\* store with anything else.
C8_OneRecordPerLead ==
    LET now == Committed
    IN  /\ AtMostOneRecord(now)
        /\ \A k \in DOMAIN now.assignments :
              now.assignments[k].lead_document_number \in LeadDocs(now)
        /\ \A p \in Procs : Tracked(p) => ExactlyOneRecord(now)
        /\ \A p \in Procs : ExactlyOneRecord(hist[p].pre) => ExactlyOneRecord(now)

\* after two cycles, the second one a simulator cycle, two leads are in the
\* store, each with its one record, one of them with a seller
C8_Witness ==
    /\ clock = MaxCycles
    /\ Returned(1) /\ hist[1].stage = "committed" /\ hist[1].caller = "sim"
    /\ Cardinality(LeadDocs(Committed)) >= 2
    /\ ExactlyOneRecord(Committed)
    /\ \E k \in DOMAIN Committed.assignments :
          Committed.assignments[k].seller_document_number # NULL

\* the cycle of process p ended at one of the two early exits
EarlyExit(p) == Returned(p) /\ hist[p].stage \in {"no_leads", "no_sellers"}
                            /\ hist[p].failed = "no"

\* C9 as stated: a cycle that finds no pending lead or no eligible seller returns
\* 0 and leaves the committed store as it was before the cycle.
C9_EarlyExitWritesNothing ==
    \A p \in Procs :
        EarlyExit(p) => (result[p].value = 0 /\ Committed = hist[p].pre)

\* what the ensure step adds to a committed store content c at time t: the
\* Pending status when no status of that name (in any letter case) exists, and
\* one Pending record without seller per lead that has none
EnsuredFrom(c, t, after) ==
    LET known == {r \in c.assignment_statuses : LOWER(r.name) = pending_lc}
        added == after.assignment_statuses \ c.assignment_statuses
        fresh == SubSeq(after.assignments, Len(c.assignments) + 1, Len(after.assignments))
        untracked == {d \in LeadDocs(c) : RowsOf(c, d) = {}}
    IN  /\ after.leads = c.leads
        /\ c.assignment_statuses \subseteq after.assignment_statuses
        /\ IF known # {} THEN added = {}
           ELSE /\ Cardinality(added) = 1
                /\ \A r \in added : r.name = Pending
        /\ Len(after.assignments) = Len(c.assignments) + Cardinality(untracked)
        /\ SubSeq(after.assignments, 1, Len(c.assignments)) = c.assignments
        /\ {r.lead_document_number : r \in Range(fresh)} = untracked
        /\ \A r \in Range(fresh) :
              /\ r.seller_document_number = NULL
              /\ r.assigned_at = t
              /\ IsPendingRow(after, r)

\* C9 (amended): a cycle that finds no pending lead or no eligible seller returns
\* 0 and has written nothing but what its ensure step committed: the Pending
\* status if the registry had none, and one Pending record without seller per lead
\* that had no record; when there was nothing to ensure the committed store is
\* the one before the cycle.
C9_EarlyExitWritesOnlyEnsure ==
    \A p \in Procs :
        EarlyExit(p) =>
            LET now == Committed
            IN  /\ result[p].value = 0
                /\ EnsuredFrom(hist[p].pre, clock, now)
                /\ (/\ \E r \in hist[p].pre.assignment_statuses :
                          LOWER(r.name) = pending_lc
                    /\ ExactlyOneRecord(hist[p].pre))
                       => now = hist[p].pre

\* the cycle left at "no eligible sellers" after its ensure step had committed
\* a tracking record for a lead that had none
C9_Witness ==
    \E p \in Procs :
        /\ EarlyExit(p) /\ hist[p].stage = "no_sellers"
        /\ Len(Committed.assignments) > Len(hist[p].pre.assignments)

\* the cycle of process p went through the matching step and committed
Succeeded(p) == Returned(p) /\ hist[p].stage = "committed" /\ hist[p].failed = "no"

\* C11: a pending lead for which no seller is eligible when it is considered is
\* skipped without error: the loop goes on with the leads after it (every lead
\* of the batch is considered, in the order of the batch), and after the cycle
\* the lead's record is the one the cycle found or created: Pending, without
\* seller, with the assigned_at it had.
C11_SkippedLeadUntouched ==
    \A p \in Procs :
        /\ pc[p] \in {"loop", "commit2"} =>
              /\ Len(hist[p].produced) = frame[p].i - 1
              /\ \A j \in DOMAIN hist[p].produced :
                    hist[p].produced[j].lead = frame[p].leads[j]
        /\ pc[p] = "commit2" => Len(hist[p].produced) = Len(frame[p].leads)
        /\ Succeeded(p) =>
              LET now == Committed
              IN  \A j \in DOMAIN hist[p].produced :
                    LET d == hist[p].produced[j].lead.document_number
                    IN  hist[p].produced[j].pos = 0 =>
                          /\ RowsOf(hist[p].mid, d) # {}
                          /\ RowsOf(now, d) = RowsOf(hist[p].mid, d)
                          /\ \A k \in RowsOf(now, d) :
                                /\ now.assignments[k] = hist[p].mid.assignments[k]
                                /\ now.assignments[k].seller_document_number = NULL
                                /\ IsPendingRow(now, now.assignments[k])
                          /\ \A k \in RowsOf(hist[p].pre, d) :
                                now.assignments[k] = hist[p].pre.assignments[k]

\* a committed cycle skipped its first lead, for which an active seller of the
\* lead's line was at its ceiling or none was of its line, and assigned a later one
C11_Witness ==
    \E p \in Procs :
        /\ Succeeded(p)
        /\ \E j \in DOMAIN hist[p].produced :
             /\ hist[p].produced[j].pos = 0
             /\ \E i \in DOMAIN hist[p].produced : i > j /\ hist[p].produced[i].pos # 0
        /\ \E k \in DOMAIN Committed.assignments :
             Committed.assignments[k].seller_document_number # NULL

\* what a run of the engine decided, lead by lead: the seller or none
Decisions(p) ==
    [j \in DOMAIN hist[p].produced |->
        [lead |-> hist[p].produced[j].lead.document_number,
         seller |-> IF hist[p].produced[j].pos = 0 THEN NULL
                    ELSE hist[p].produced[j].before[hist[p].produced[j].pos].document_number]]

\* the status a run writes is one the registry of its connection names Assigned
WritesAssigned(p) ==
    /\ StatusName(assignment_statuses, p, frame[p].assigned_id) # {}
    /\ \A n \in StatusName(assignment_statuses, p, frame[p].assigned_id) :
          LOWER(n) = LOWER(Assigned)

\* C12: two runs of assign_leads_to_sellers on the same leads sequence, the same
\* sellers sequence and the same status registry, at different times, decide
\* the same seller (or none) for every lead, write the same status, which the
\* registry names Assigned, and return the same count.
C12_Deterministic ==
    /\ (pc[1] = "returned" /\ pc[2] = "idle") => WritesAssigned(1)
    /\ (pc[1] = "returned" /\ pc[2] = "returned") =>
          /\ frame[1].leads = frame[2].leads
          /\ hist[1].fetched = hist[2].fetched
          /\ Decisions(1) = Decisions(2)
          /\ frame[1].assigned_id = frame[2].assigned_id
          /\ WritesAssigned(2)
          /\ result[1].value = result[2].value
          /\ result[2].value =
                Cardinality({j \in DOMAIN Decisions(2) : Decisions(2)[j].seller # NULL})

\* both runs returned, at different times, having assigned one lead to the
\* second of two sellers that were both eligible for some lead, and skipped none
C12_Witness ==
    /\ pc[1] = "returned" /\ pc[2] = "returned"
    /\ clock > 1
    /\ result[2].value >= 2
    /\ \E j \in DOMAIN hist[2].produced :
          /\ hist[2].produced[j].pos = 2
          /\ Cardinality(EligibleIdx(hist[2].produced[1].lead, hist[2].fetched)) = 2

\* a registry without the transaction marks
Entries(st) == {[assignment_status_id |-> r.assignment_status_id, name |-> r.name] : r \in st}

\* C13 as stated: under any sequence of status resolutions by the assigner and
\* the simulator, with names that may differ in letter case or in leading and
\* trailing blanks, the registry only grows, by at most one entry per call, no
\* two entries have names equal after trimming and case folding, and the same
\* name always resolves to the same identifier.
C13_OneEntryPerName ==
    /\ \A r1, r2 \in assignment_statuses :
          LOWER(strip(r1.name)) = LOWER(strip(r2.name)) => r1 = r2
    /\ \A p \in Procs :
          \A i, j \in DOMAIN hist[p].produced :
             LET a == hist[p].produced[i]
                 b == hist[p].produced[j]
             IN  /\ a.name = b.name => a.id = b.id
                 /\ Entries(a.before) \subseteq Entries(assignment_statuses)
                 /\ j = i + 1 =>
                       /\ Entries(a.before) \subseteq Entries(b.before)
                       /\ Cardinality(Entries(b.before) \ Entries(a.before)) <= 1

\* the records of store content c bound to seller s whose status carries one of
\* the given names, in any letter case
CountFor(c, s, names) ==
    Cardinality({k \in DOMAIN c.assignments :
        /\ c.assignments[k].seller_document_number = s
        /\ \E n \in NamesOf(c, c.assignments[k].assignment_status_id) :
              \E m \in names : LOWER(n) = LOWER(m)})

\* C14 as stated, the single-flight half: when one cycle runs to completion
\* before the next begins, no committed store state shows a seller with more
\* Assigned assignments than its max_leads_count. (The other half, that two
\* interleaved cycles can reach such a state, is a reachability statement.)
C14_SingleFlightWithinCapacity ==
    \A s \in sellers :
        CountFor(Committed, s.document_number, {Assigned}) <= s.max_leads_count

\* C16 as stated: from a store in which no seller is above its ceiling (the
\* records in progress are the load the cycles found, they write none), after
\* any number of complete cycles with leads arriving in between, no seller has
\* more records in the status written by the assigner or In Progress than its
\* max_leads_count, whatever the letter case of the names in the registry.
C16_CapacityAcrossCycles ==
    LET now == Committed
    IN  (\A s \in sellers :
            CountFor(now, s.document_number, {InProgress}) <= s.max_leads_count)
        => \A s \in sellers :
              CountFor(now, s.document_number, {Assigned, InProgress}) <= s.max_leads_count

\* the leads with a Pending record in store content c
PendingIn(c) ==
    {d \in LeadDocs(c) : \E k \in RowsOf(c, d) : IsPendingRow(c, c.assignments[k])}
LineOf(c, d) == (CHOOSE l \in c.leads : l.document_number = d).business_line_id

\* the leads the cycle of process p has given to a seller so far
AssignedBy(p) ==
    {hist[p].produced[j].lead.document_number :
        j \in {i \in DOMAIN hist[p].produced : hist[p].produced[i].pos # 0}}

\* C15: within a cycle the pending leads are served in ascending order of their
\* document numbers, and a lead is never served while an earlier lead of the
\* same business line went without seller: when the cycle has assigned a lead,
\* it has assigned every pending lead of that line with a smaller number.
C15_SmallestFirst ==
    \A p \in Procs :
        /\ \A i, j \in DOMAIN hist[p].produced :
              i < j =>
                 /\ hist[p].produced[i].lead.document_number
                       < hist[p].produced[j].lead.document_number
                 /\ (/\ hist[p].produced[j].pos # 0
                     /\ hist[p].produced[i].lead.business_line_id
                           = hist[p].produced[j].lead.business_line_id)
                       => hist[p].produced[i].pos # 0
        /\ hist[p].stage \in {"matching", "matched", "committed"} =>
              \A d \in AssignedBy(p) :
                 \A e \in PendingIn(hist[p].mid) :
                    (e < d /\ LineOf(hist[p].mid, e) = LineOf(hist[p].mid, d))
                       => e \in AssignedBy(p)

\* a committed cycle with two pending leads of one line and room for one: the
\* smaller document number got the seller, the larger stays without
C15_Witness ==
    \E p \in Procs :
        /\ Succeeded(p)
        /\ \E i, j \in DOMAIN hist[p].produced :
             /\ i < j
             /\ hist[p].produced[i].lead.business_line_id
                   = hist[p].produced[j].lead.business_line_id
             /\ hist[p].produced[i].pos # 0
             /\ hist[p].produced[j].pos = 0

\* C17: the greedy pass leaves no assignable lead behind: when the loop is over
\* no lead it skipped has a fetched seller of its line whose running
\* current_leads is below max_leads_count, and after the commit of such a cycle
\* no lead is still Pending while an active seller of its business line has
\* fewer records Assigned or In Progress, this cycle's included, than its
\* max_leads_count.
C17_NoAssignableLeftBehind ==
    \A p \in Procs :
        /\ pc[p] = "commit2" =>
              \A j \in DOMAIN hist[p].produced :
                 hist[p].produced[j].pos = 0 =>
                    \A k \in DOMAIN frame[p].sellers :
                       frame[p].sellers[k].business_line_id
                             = hist[p].produced[j].lead.business_line_id
                          => frame[p].sellers[k].current_leads
                                >= frame[p].sellers[k].max_leads_count
        /\ Succeeded(p) =>
              LET now == Committed
              IN  \A d \in PendingIn(now) :
                     \A s \in sellers :
                        (s.is_active /\ s.business_line_id = LineOf(now, d))
                           => CountFor(now, s.document_number, {Assigned, InProgress})
                                 >= s.max_leads_count

\* a committed cycle filled an active seller to its ceiling and left a lead of
\* that seller's line Pending
C17_Witness ==
    \E p \in Procs :
        /\ Succeeded(p)
        /\ \E d \in PendingIn(Committed) :
             \E s \in sellers :
                /\ s.is_active /\ s.business_line_id = LineOf(Committed, d)
                /\ s.max_leads_count > 0
                /\ CountFor(Committed, s.document_number, {Assigned}) = s.max_leads_count
                /\ \E j \in DOMAIN hist[p].produced :
                      /\ hist[p].produced[j].pos # 0
                      /\ hist[p].fetched[hist[p].produced[j].pos].document_number
                            = s.document_number

\* C18: a cycle modifies only records that were Pending when it began: at every
\* point of a cycle, and after it however it ended, the committed record of a
\* lead that was not Pending at the start of assign_leads (Assigned, In
\* Progress) is the one it was (seller, status, assigned_at), and the cycle's
\* connection holds no uncommitted update of a record that is not Pending.
C18_OnlyPendingModified ==
    \A p \in Procs :
        hist[p].stage # "idle" =>
            LET now == Committed
            IN  /\ \A k \in DOMAIN hist[p].pre.assignments :
                      ~IsPendingRow(hist[p].pre, hist[p].pre.assignments[k]) =>
                          /\ k \in DOMAIN now.assignments
                          /\ now.assignments[k] = hist[p].pre.assignments[k]
                /\ \A k \in DOMAIN assignments :
                      (assignments[k].by = p /\ assignments[k].c # <<>>) =>
                          IsPendingRow(now, assignments[k].c[1])

\* the second cycle went through the matching step and committed on a store
\* in which the first had left a lead Assigned to a seller
C18_Witness ==
    \E p \in Procs :
        /\ Succeeded(p)
        /\ clock >= 2
        /\ hist[p].produced # <<>>
        /\ \E k \in DOMAIN hist[p].pre.assignments :
             /\ IsAssignedRow(hist[p].pre, hist[p].pre.assignments[k])
             /\ hist[p].pre.assignments[k].assigned_at = 1

\* the committed records of content c show what the run of p decided: the lead
\* Assigned to the seller decided for it, or Pending without seller
ShowsDecisions(c, p) ==
    \A j \in DOMAIN Decisions(p) :
        LET e == Decisions(p)[j]
        IN  /\ RowsOf(c, e.lead) # {}
            /\ \A k \in RowsOf(c, e.lead) :
                  /\ c.assignments[k].seller_document_number = e.seller
                  /\ IF e.seller = NULL THEN IsPendingRow(c, c.assignments[k])
                     ELSE IsAssignedRow(c, c.assignments[k])

\* C19: when assign_leads fails after the commit of its ensure step and before
\* its final commit took effect, the committed store is the one before the
\* cycle plus the tracking records of the ensure step (Pending, without seller)
\* and holds no assignment update; a second run on that store, with leads and
\* sellers unchanged, finds nothing to ensure, and given the sellers in the
\* order the failed run read them it takes for every lead the decision the
\* failed run had taken, so that where only the final commit had failed it
\* commits the seller and status per lead, and returns the count, that the
\* failed run would have committed.
C19_FailureAfterEnsureHarmless ==
    hist[1].failed \in AfterEnsure =>
        /\ EnsuredFrom(hist[1].pre, 1, hist[1].mid)
        /\ hist[2].stage = "idle" => Committed = hist[1].mid
        /\ hist[2].stage # "idle" => hist[2].pre = hist[1].mid
        /\ Tracked(2) => hist[2].mid = hist[2].pre
        /\ (hist[2].fetched # <<>> /\ hist[2].fetched = hist[1].fetched) =>
              /\ \A j \in DOMAIN Decisions(1) \cap DOMAIN Decisions(2) :
                    Decisions(1)[j] = Decisions(2)[j]
              /\ (hist[1].failed = "commit2" /\ Succeeded(2)) =>
                    /\ Decisions(2) = Decisions(1)
                    /\ result[2].value = result[1].value
                    /\ ShowsDecisions(Committed, 1)

\* the first run had tracked a lead and given it to the second of its two
\* sellers when its final commit failed; the second run has committed
C19_Witness ==
    /\ hist[1].failed = "commit2" /\ Succeeded(2)
    /\ hist[2].fetched = hist[1].fetched
    /\ Len(hist[1].mid.assignments) > Len(hist[1].pre.assignments)
    /\ \E j \in DOMAIN hist[1].produced : hist[1].produced[j].pos = 2
    /\ result[2].value >= 1
====
